---------------------------- MODULE Spec2Model ----------------------------
(***************************************************************************)
(* Workflow lifecycle manager of onepanelio/core:                          *)
(*   - the watch path: the bridge goroutine of                             *)
(*     ResourceManager.WatchWorkflow and the stream loop of                *)
(*     WorkflowServer.WatchWorkflow, joined by an unbuffered channel;      *)
(*   - the pagination of WorkflowServer.ListWorkflows;                     *)
(*   - the correlation labels written by ResourceManager.CreateWorkflow    *)
(*     and read back by ResourceManager.GetWorkflow;                       *)
(*   - the opening of ResourceManager.WatchWorkflow, the label selector    *)
(*     of ResourceManager.ListWorkflows, and the error returns of the      *)
(*     WorkflowServer handlers that call the manager.                      *)
(***************************************************************************)
EXTENDS Integers, Sequences, FiniteSets, TLC

(* ------------------------------ bounds -------------------------------- *)

\* Events the orchestration client's watch delivers in one run.
MaxEvents == 3

\* Ticks of the bridge's ticker, and of the server's ticker, in one run.
MaxTicks == 2

\* Longest listing ResourceManager.ListWorkflows returns to the server.
MaxTotal == 22

\* Largest page number a ListWorkflowsRequest asks for.
MaxPage == 4

\* Largest page size a ListWorkflowsRequest asks for.
MaxPageSize == 16

\* Instances the engine holds in one namespace in a run.
MaxInstances == 2

(* ------------------------------ state --------------------------------- *)

VARIABLES
    \* --- the orchestration client's watch (kube.Client.WatchWorkflow)
    kseq,        \* number of events delivered on watcher.ResultChan()
    kfinished,   \* the engine has set Status.FinishedAt on the instance
    resultChan,  \* "open" | "closed": state of watcher.ResultChan()
    \* --- the bridge goroutine of ResourceManager.WatchWorkflow
    bpc,         \* "none" | "select" | "push" | "close" | "stop" | "done"
    workflow,    \* the held *kube.Workflow (Nil before the first event)
    pushVal,     \* the snapshot offered on workflowWatcher while bpc = "push"
    chClosed,    \* workflowWatcher has been closed
    lastBranch,  \* branch of the select the last iteration took
    \* --- WorkflowServer.WatchWorkflow
    spc,         \* "call" | "select" | "send" | "returned"
    swf,         \* the handler's wf variable
    sret,        \* "none" | "nil" | "sendErr" | "NotFound" | "Unknown"
    bticks,      \* ticks taken by the bridge's ticker
    sticks,      \* ticks taken by the server's ticker
    \* --- what an observer of the run has seen
    received,    \* objects the bridge received from the watch, in order
    pushed,      \* snapshots handed over on workflowWatcher, in order
    sent,        \* messages passed to stream.Send that succeeded, in order
    exitLog,     \* "close" / "stop" calls of the bridge, in order
    \* --- WorkflowServer.ListWorkflows
    lpc,         \* "idle" | "call" | "done"
    lreq,        \* the request: [Page, PageSize]
    llist,       \* what s.resourceManager.ListWorkflows returns: [err, workflows]
    lresp,       \* the handler's outcome: a response, an error or a panic
    \* --- ResourceManager and its collaborators
    labelKeyPrefix,  \* os.Getenv("KUBE_LABEL_KEY_PREFIX"), read once at start
    store,       \* the template store: a set of template records
    otherLabels, \* the labels other tooling puts on the instances it creates
    instances,   \* the engine's instances of the namespace; the name of an
                 \* instance is its position
    origins,     \* per instance, the template CreateWorkflow made it from
                 \* (Nil for an instance of other tooling)
    mresult,     \* the last manager call: its inputs, the instance the engine
                 \* gave or created, and what the call returned
    sresult      \* what the WorkflowServer handler that made the last manager
                 \* call returned to its caller

watchVars == <<kseq, kfinished, resultChan, bpc, workflow, pushVal, chClosed,
               lastBranch, spc, swf, sret, bticks, sticks, received, pushed,
               sent, exitLog>>

pageVars == <<lpc, lreq, llist, lresp>>

mgrVars == <<labelKeyPrefix, store, otherLabels, instances, origins, mresult,
             sresult>>

vars == <<watchVars, pageVars, mgrVars>>

(* ------------------------------ values -------------------------------- *)

\* A nil pointer (*kube.Workflow, *model.Workflow) or a nil interface value.
Nil == [kind |-> "nil"]

\* &model.Workflow{}: the value the server's wf holds before the first receive.
EmptyWorkflow == [kind |-> "empty"]

\* A *kube.Workflow carried by a watch event; seq identifies the object,
\* finished is !Status.FinishedAt.IsZero().
KubeWorkflow(n, f) == [kind |-> "wf", seq |-> n, finished |-> f]

\* An event object that is not a *kube.Workflow (for instance the
\* *metav1.Status of an error event).
OtherObject == [kind |-> "other"]

\* The zero watch.Event a receive from the closed result channel yields.
ZeroEvent == [Object |-> Nil]

\* The &model.Workflow{UID, Name, Status, WorkflowTemplate} built from the held
\* object: Status is the JSON of workflow.Status, which carries FinishedAt.
Snapshot(w) == [kind |-> "snap", seq |-> w.seq, finished |-> w.finished]

\* next.Object.(*kube.Workflow) with the ok result dropped: nil unless the
\* object is a workflow.
AsWorkflow(obj) == IF obj.kind = "wf" THEN obj ELSE Nil

\* The events the result channel can yield to the next receive.
NextEvents ==
    IF resultChan = "closed"
    THEN {ZeroEvent}
    ELSE IF kseq >= MaxEvents
         THEN {}
         ELSE {[Object |-> KubeWorkflow(kseq + 1, f)] :
                   f \in (IF kfinished THEN {TRUE} ELSE BOOLEAN)}
              \cup {[Object |-> OtherObject]}

(* ------------------------- the bridge goroutine ------------------------ *)

\* Mutant: the termination test reads the flag the wrong way round.
BreakAfterPushInverted(w) == ~w.finished

\* Mutant: the loop is left after every push.
BreakAfterPushAlways(w) == TRUE

\* if !workflow.Status.FinishedAt.IsZero() { break }
BreakAfterPush(w) == w.finished

\* Mutant: the loop body pushes on ticks only, an event just replaces the
\* held object.
BridgeLoopBodyPushesOnTick(w, branch) ==
    /\ lastBranch' = branch
    /\ IF w = Nil \/ branch = "event"
       THEN /\ bpc' = "select"
            /\ pushVal' = pushVal
       ELSE /\ bpc' = "push"
            /\ pushVal' = Snapshot(w)

\* The loop body after the select: continue on a nil object, else marshal the
\* status and offer the snapshot on workflowWatcher.
BridgeLoopBody(w, branch) ==
    /\ lastBranch' = branch
    /\ IF w = Nil
       THEN /\ bpc' = "select"
            /\ pushVal' = pushVal
       ELSE /\ bpc' = "push"
            /\ pushVal' = Snapshot(w)

\* Mutant: a receive from the closed result channel ends the loop.
BridgeRecvEventEndsOnClosed ==
    /\ bpc = "select"
    /\ \E next \in NextEvents :
          /\ workflow' = AsWorkflow(next.Object)
          /\ IF resultChan = "closed"
             THEN /\ UNCHANGED <<kseq, kfinished, received, pushVal>>
                  /\ lastBranch' = "event"
                  /\ bpc' = "close"
             ELSE /\ kseq' = kseq + 1
                  /\ kfinished' = (kfinished \/ (next.Object.kind = "wf"
                                                 /\ next.Object.finished))
                  /\ received' = Append(received, next.Object)
                  /\ BridgeLoopBody(workflow', "event")
    /\ UNCHANGED <<resultChan, chClosed, spc, swf, sret, bticks, sticks,
                   pushed, sent, exitLog>>
    /\ UNCHANGED <<pageVars, mgrVars>>

\* case next := <-watcher.ResultChan(): workflow, _ = next.Object.(*kube.Workflow)
BridgeRecvEvent ==
    /\ bpc = "select"
    /\ \E next \in NextEvents :
          /\ workflow' = AsWorkflow(next.Object)
          /\ IF resultChan = "closed"
             THEN UNCHANGED <<kseq, kfinished, received>>
             ELSE /\ kseq' = kseq + 1
                  /\ kfinished' = (kfinished \/ (next.Object.kind = "wf"
                                                 /\ next.Object.finished))
                  /\ received' = Append(received, next.Object)
          /\ BridgeLoopBody(workflow', "event")
    /\ UNCHANGED <<resultChan, chClosed, spc, swf, sret, bticks, sticks,
                   pushed, sent, exitLog>>
    /\ UNCHANGED <<pageVars, mgrVars>>

\* case <-ticker.C: the held object is kept.
BridgeTick ==
    /\ bpc = "select"
    /\ bticks < MaxTicks
    /\ bticks' = bticks + 1
    /\ BridgeLoopBody(workflow, "tick")
    /\ UNCHANGED <<kseq, kfinished, resultChan, workflow, chClosed, spc, swf,
                   sret, sticks, received, pushed, sent, exitLog>>
    /\ UNCHANGED <<pageVars, mgrVars>>

\* Mutant: the watch is stopped before the channel is closed.
BridgeCloseStopsFirst ==
    /\ bpc = "close"
    /\ resultChan' = "closed"
    /\ exitLog' = Append(exitLog, "stop")
    /\ bpc' = "stop"
    /\ UNCHANGED <<kseq, kfinished, workflow, pushVal, chClosed, lastBranch,
                   spc, swf, sret, bticks, sticks, received, pushed, sent>>
    /\ UNCHANGED <<pageVars, mgrVars>>

\* close(workflowWatcher)
BridgeClose ==
    /\ bpc = "close"
    /\ chClosed' = TRUE
    /\ exitLog' = Append(exitLog, "close")
    /\ bpc' = "stop"
    /\ UNCHANGED <<kseq, kfinished, resultChan, workflow, pushVal, lastBranch,
                   spc, swf, sret, bticks, sticks, received, pushed, sent>>
    /\ UNCHANGED <<pageVars, mgrVars>>

\* watcher.Stop(): the subscription is released and its result channel closed.
BridgeStop ==
    /\ bpc = "stop"
    /\ resultChan' = "closed"
    /\ exitLog' = Append(exitLog, "stop")
    /\ bpc' = "done"
    /\ UNCHANGED <<kseq, kfinished, workflow, pushVal, chClosed, lastBranch,
                   spc, swf, sret, bticks, sticks, received, pushed, sent>>
    /\ UNCHANGED <<pageVars, mgrVars>>

\* The orchestration client ends the watch on its own (the server side of a
\* watch times out): the result channel is closed under the bridge.
KubeCloseResultChan ==
    /\ bpc \in {"select", "push"}
    /\ resultChan = "open"
    /\ resultChan' = "closed"
    /\ UNCHANGED <<kseq, kfinished, bpc, workflow, pushVal, chClosed,
                   lastBranch, spc, swf, sret, bticks, sticks, received,
                   pushed, sent, exitLog>>
    /\ UNCHANGED <<pageVars, mgrVars>>

(* --------------------- WorkflowServer.WatchWorkflow -------------------- *)

\* The outcomes of s.resourceManager.WatchWorkflow: the channel, or the user
\* error of the failed initial fetch or of the failed subscription.
WatchOpenOutcomes == {"ok", "NotFound", "Unknown"}

\* watcher, err := s.resourceManager.WatchWorkflow(...); on an error the
\* handler returns it, else the bridge runs and the handler enters its loop.
ServerCallWatch ==
    /\ spc = "call"
    /\ \E out \in WatchOpenOutcomes :
          IF out = "ok"
          THEN /\ spc' = "select"
               /\ bpc' = "select"
               /\ sret' = sret
          ELSE /\ spc' = "returned"
               /\ bpc' = bpc
               /\ sret' = out
    /\ UNCHANGED <<kseq, kfinished, resultChan, workflow, pushVal, chClosed,
                   lastBranch, swf, bticks, sticks, received, pushed, sent,
                   exitLog>>
    /\ UNCHANGED <<pageVars, mgrVars>>

\* After the select: if wf == nil { break } and return nil, else stream.Send.
ServerAfterSelect(wf) ==
    IF wf = Nil
    THEN /\ spc' = "returned"
         /\ sret' = "nil"
    ELSE /\ spc' = "send"
         /\ sret' = sret

\* case wf = <-watcher, the channel still open: the hand-over of the snapshot
\* the bridge offers. The bridge's send returns and it tests FinishedAt.
ServerRecvSnapshot ==
    /\ spc = "select"
    /\ bpc = "push"
    /\ swf' = pushVal
    /\ pushed' = Append(pushed, pushVal)
    /\ bpc' = IF BreakAfterPush(workflow) THEN "close" ELSE "select"
    /\ ServerAfterSelect(swf')
    /\ UNCHANGED <<kseq, kfinished, resultChan, workflow, pushVal, chClosed,
                   lastBranch, bticks, sticks, received, sent, exitLog>>
    /\ UNCHANGED <<pageVars, mgrVars>>

\* case wf = <-watcher on the closed channel: the receive yields nil.
ServerRecvClosed ==
    /\ spc = "select"
    /\ chClosed
    /\ swf' = Nil
    /\ ServerAfterSelect(swf')
    /\ UNCHANGED <<kseq, kfinished, resultChan, bpc, workflow, pushVal,
                   chClosed, lastBranch, bticks, sticks, received, pushed,
                   sent, exitLog>>
    /\ UNCHANGED <<pageVars, mgrVars>>

\* case <-ticker.C: wf keeps its value.
ServerTick ==
    /\ spc = "select"
    /\ sticks < MaxTicks
    /\ sticks' = sticks + 1
    /\ ServerAfterSelect(swf)
    /\ UNCHANGED <<kseq, kfinished, resultChan, bpc, workflow, pushVal,
                   chClosed, lastBranch, swf, bticks, received, pushed, sent,
                   exitLog>>
    /\ UNCHANGED <<pageVars, mgrVars>>

\* stream.Send(apiWorkflow(wf)): the message goes out, or the transport
\* fails and the handler returns the error.
ServerSend ==
    /\ spc = "send"
    /\ \E ok \in BOOLEAN :
          IF ok
          THEN /\ sent' = Append(sent, swf)
               /\ spc' = "select"
               /\ sret' = sret
          ELSE /\ sent' = sent
               /\ spc' = "returned"
               /\ sret' = "sendErr"
    /\ UNCHANGED <<kseq, kfinished, resultChan, bpc, workflow, pushVal,
                   chClosed, lastBranch, swf, bticks, sticks, received,
                   pushed, exitLog>>
    /\ UNCHANGED <<pageVars, mgrVars>>

(* --------------------- WorkflowServer.ListWorkflows -------------------- *)

\* The range of an int32. The model checker's integers have this same range
\* and it stops with an error on an overflow instead of wrapping: a run that
\* ends without one has seen no int32 operation of the code overflow.
Int32Max == (2^30 - 1) + 2^30

Int32Min == (-Int32Max) - 1

\* The page size the handler uses when the request gives none.
DefaultPageSize == 15

\* int32(math.Ceil(float64(n) / float64(d))) for a length n and a d >= 1: the
\* quotient is exact enough in float64 that its ceiling is the integer ceiling.
CeilDiv(n, d) == IF n % d = 0 THEN n \div d ELSE (n \div d) + 1

\* s[low:high] of a slice of length n: Go panics unless 0 <= low <= high and
\* high is within the capacity, which is at least n.
SliceInRange(low, high, n) == 0 <= low /\ low <= high /\ high <= n

\* s[low:high] of a slice in range: the elements s[low] .. s[high-1].
Slice(s, low, high) == SubSeq(s, low + 1, high)

\* if end >= int32(len(apiWorkflows)) { end = int32(len(apiWorkflows)) - 1 }
ListEnd(end, n) == IF end >= n THEN n - 1 ELSE end

\* The body of the handler from the normalisation of the request to the
\* response, for a listing `workflows` the manager returned without error.
ListWorkflowsResponse(reqPage, reqPageSize, workflows) ==
    LET n        == Len(workflows)
        pageSize == IF reqPageSize <= 0 THEN DefaultPageSize ELSE reqPageSize
        page1    == IF reqPage <= 0 THEN 1 ELSE reqPage
        pages    == CeilDiv(n, pageSize)
        page     == IF page1 > pages THEN pages ELSE page1
        start    == (page - 1) * pageSize
        end      == ListEnd(start + pageSize, n)
    IN  IF SliceInRange(start, end, n)
        THEN [kind       |-> "response",
              Count      |-> end - start,
              Workflows  |-> Slice(workflows, start, end),
              Page       |-> page,
              Pages      |-> pages,
              TotalCount |-> n]
        ELSE [kind |-> "panic", low |-> start, high |-> end]

\* WorkflowServer.ListWorkflows: a user error of the manager is returned as a
\* gRPC error, else the page is cut out of the listing.
ListWorkflows ==
    /\ lpc = "call"
    /\ lpc' = "done"
    /\ lresp' = IF llist.err # "nil"
                THEN [kind |-> "error", code |-> llist.err]
                ELSE ListWorkflowsResponse(lreq.Page, lreq.PageSize,
                                           llist.workflows)
    /\ UNCHANGED <<lreq, llist>>
    /\ UNCHANGED <<watchVars, mgrVars>>

\* The pages and page sizes a request carries.
PageInputs == (-1 .. MaxPage) \cup {Int32Min, Int32Max}

PageSizeInputs == (-1 .. MaxPageSize) \cup {Int32Min, Int32Max}

\* What the manager's ListWorkflows returns: NotFound, or the workflows of the
\* namespace (each identified by its position in the engine's listing).
ListingInputs ==
    {[err |-> "NotFound", workflows |-> <<>>]}
    \cup {[err |-> "nil", workflows |-> [i \in 1..n |-> i]] : n \in 0..MaxTotal}

PageIdle ==
    /\ lpc = "idle"
    /\ lreq = [Page |-> 0, PageSize |-> 0]
    /\ llist = [err |-> "nil", workflows |-> <<>>]
    /\ lresp = [kind |-> "none"]

PageInit ==
    /\ lpc = "call"
    /\ lreq \in [Page : PageInputs, PageSize : PageSizeInputs]
    /\ llist \in ListingInputs
    /\ lresp = [kind |-> "none"]

(* ------------------- strings, Sprint and ParseInt ---------------------- *)

\* A string is the sequence of its characters.
EmptyString == <<>>

DigitChars == <<"0", "1", "2", "3", "4", "5", "6", "7", "8", "9">>

\* The decimal digits of the magnitude of a number m <= 0, most significant
\* first (the magnitude of the least int32 is no int32, so the digits are
\* taken from the negative number).
RECURSIVE DecimalDigits(_)
DecimalDigits(m) ==
    LET d == (10 - (m % 10)) % 10 IN
    IF m > -10
    THEN <<DigitChars[d + 1]>>
    ELSE DecimalDigits((m + d) \div 10) \o <<DigitChars[d + 1]>>

\* fmt.Sprint of an int32: decimal text, "-" before a negative number.
FormatInt32(v) == IF v < 0 THEN <<"-">> \o DecimalDigits(v) ELSE DecimalDigits(-v)

\* The value strconv gives a character as a digit: 0-9, then the letters as
\* 10-35; none for any other character (the underscore counts only in base 0).
HexLetters == <<"a", "b", "c", "d", "e", "f">>

DigitValue(c) ==
    IF \E i \in 1..10 : DigitChars[i] = c
    THEN (CHOOSE i \in 1..10 : DigitChars[i] = c) - 1
    ELSE IF \E i \in 1..6 : HexLetters[i] = c
         THEN (CHOOSE i \in 1..6 : HexLetters[i] = c) + 9
         ELSE IF c = "x" THEN 33 ELSE -1

\* The least value of a signed integer of bitSize bits.
MinOfBits(bitSize) == (-(2^(bitSize - 2))) * 2

\* The digits of strconv.ParseUint from digit i on. m <= 0 is the value so far,
\* negated: the magnitude 2^(bitSize-1), which ParseInt admits after a "-",
\* is no integer of the model checker. A character that is no digit of the
\* base is an error, and so is a magnitude over 2^(bitSize-1): ParseInt
\* reports every such text out of range, be it ParseUint's range error or its
\* own cutoff.
RECURSIVE ParseDigitsFrom(_, _, _, _, _)
ParseDigitsFrom(s, i, m, base, bitSize) ==
    IF i > Len(s)
    THEN [ok |-> TRUE, neg |-> m]
    ELSE LET d == DigitValue(s[i]) IN
         IF d < 0 \/ d >= base
         THEN [ok |-> FALSE, neg |-> 0]
         ELSE IF m < (MinOfBits(bitSize) + d + base - 1) \div base
              THEN [ok |-> FALSE, neg |-> 0]
              ELSE ParseDigitsFrom(s, i + 1, m * base - d, base, bitSize)

\* strconv.ParseInt(s, base, bitSize), ok standing for a nil error: an
\* optional sign, then at least one digit, then the range of the signed type
\* (a magnitude of 2^(bitSize-1) only after a "-").
ParseInt(s, base, bitSize) ==
    IF s = EmptyString
    THEN [ok |-> FALSE, val |-> 0]
    ELSE LET neg  == s[1] = "-"
             rest == IF s[1] \in {"+", "-"} THEN Tail(s) ELSE s
             un   == IF rest = EmptyString
                     THEN [ok |-> FALSE, neg |-> 0]
                     ELSE ParseDigitsFrom(rest, 1, 0, base, bitSize)
         IN  IF ~un.ok
             THEN [ok |-> FALSE, val |-> 0]
             ELSE IF ~neg /\ un.neg = MinOfBits(bitSize)
                  THEN [ok |-> FALSE, val |-> 0]
                  ELSE [ok |-> TRUE, val |-> IF neg THEN un.neg ELSE -un.neg]

(* ------------------- ResourceManager: the collaborators ---------------- *)

\* The values KUBE_LABEL_KEY_PREFIX takes.
KeyPrefixes == {"", "onepanel.io/"}

workflowTemplateUIDLabelKey == labelKeyPrefix \o "workflow-template-uid"

workflowTemplateVersionLabelKey == labelKeyPrefix \o "workflow-template-version"

\* m[k] of a Go map of strings: the empty string for an absent key.
LabelValue(m, k) == IF k \in DOMAIN m THEN m[k] ELSE EmptyString

\* m[k] = v
LabelPut(m, k, v) == [x \in DOMAIN m \cup {k} |-> IF x = k THEN v ELSE m[x]]

NoLabels == [x \in {} |-> EmptyString]

\* Template uids of the store, and one no template has.
UIDs == {<<"u", "1">>, <<"u", "2">>}

NoSuchUID == <<"u", "9">>

\* r.workflowRepository.GetWorkflowTemplate: the record of (uid, version), nil
\* when the store has none.
RepoGetWorkflowTemplate(uid, version) ==
    IF \E t \in store : t.UID = uid /\ t.Version = version
    THEN CHOOSE t \in store : t.UID = uid /\ t.Version = version
    ELSE Nil

\* r.kubeClient.GetWorkflow: the instance of that name, nil when there is none.
KubeGetWorkflow(name) ==
    IF name \in 1..Len(instances) THEN instances[name] ELSE Nil

\* r.kubeClient.CreateWorkflow: a new instance carrying the labels of the
\* options, named by the engine.
KubeCreateWorkflow(labels) ==
    [Name |-> Len(instances) + 1, Labels |-> labels]

\* The label selector "key=value" as the engine reads it: the key is the text
\* before the "=", the value the text after it.
SelectorKey(sel) == sel[1]

SelectorValue(sel) == SubSeq(sel, 3, Len(sel))

\* r.kubeClient.ListWorkflows: the instances of the namespace, narrowed to
\* those whose label of the selector's key has the selector's value when the
\* options carry a selector.
KubeListWorkflows(sel) ==
    LET Selected(inst) ==
            /\ SelectorKey(sel) \in DOMAIN inst.Labels
            /\ inst.Labels[SelectorKey(sel)] = SelectorValue(sel)
    IN  IF sel = Nil THEN instances ELSE SelectSeq(instances, Selected)

(* ------------------------- ResourceManager ----------------------------- *)

\* ResourceManager.GetWorkflowTemplate: Unknown on a store error, NotFound on
\* no record.
GetWorkflowTemplate(uid, version, repoErr) ==
    IF repoErr
    THEN [tpl |-> Nil, err |-> "Unknown"]
    ELSE IF RepoGetWorkflowTemplate(uid, version) = Nil
         THEN [tpl |-> Nil, err |-> "NotFound"]
         ELSE [tpl |-> RepoGetWorkflowTemplate(uid, version), err |-> "nil"]

\* The two label writes of CreateWorkflow on the empty label map of the options.
StampLabels(tpl) ==
    LabelPut(LabelPut(NoLabels, workflowTemplateUIDLabelKey, tpl.UID),
             workflowTemplateVersionLabelKey, FormatInt32(tpl.Version))

\* Mutant: an archived template is refused as if it were absent.
CreateWorkflowCallRefusesArchived(uid, version, repoErr, kubeErr) ==
    LET t == GetWorkflowTemplate(uid, version, repoErr) IN
    IF t.err # "nil"
    THEN [err |-> t.err, wf |-> Nil, created |-> Nil]
    ELSE IF kubeErr
         THEN [err |-> "raw", wf |-> Nil, created |-> Nil]
         ELSE IF t.tpl.IsArchived
              THEN [err |-> "NotFound", wf |-> Nil, created |-> Nil]
              ELSE LET inst == KubeCreateWorkflow(StampLabels(t.tpl)) IN
                   [err |-> "nil",
                    wf |-> [Name |-> inst.Name,
                            WorkflowTemplate |->
                                [t.tpl EXCEPT !.Manifest = EmptyString]],
                    created |-> inst]

\* ResourceManager.CreateWorkflow: what it returns, and the instance the
\* engine creates (Nil when none is created). A failure of the client's
\* create is returned as it is.
CreateWorkflowCall(uid, version, repoErr, kubeErr) ==
    LET t == GetWorkflowTemplate(uid, version, repoErr) IN
    IF t.err # "nil"
    THEN [err |-> t.err, wf |-> Nil, created |-> Nil]
    ELSE IF kubeErr
         THEN [err |-> "raw", wf |-> Nil, created |-> Nil]
         ELSE LET inst == KubeCreateWorkflow(StampLabels(t.tpl)) IN
              [err |-> "nil",
               wf |-> [Name |-> inst.Name,
                       WorkflowTemplate |-> [t.tpl EXCEPT !.Manifest = EmptyString]],
               created |-> inst]

\* Mutant: the version label is read in base 16.
ParseVersionLabelBase16(s) == ParseInt(s, 16, 32)

\* strconv.ParseInt(wf.ObjectMeta.Labels[workflowTemplateVersionLabelKey], 10, 32)
ParseVersionLabel(s) == ParseInt(s, 10, 32)

\* Mutant: a version label that does not parse is read as version 0.
GetWorkflowCallLenient(name, repoErr, kubeErr) ==
    LET inst == IF kubeErr THEN Nil ELSE KubeGetWorkflow(name) IN
    IF inst = Nil
    THEN [err |-> "NotFound", wf |-> Nil, lookups |-> <<>>]
    ELSE LET uid     == LabelValue(inst.Labels, workflowTemplateUIDLabelKey)
             version == ParseVersionLabel(
                            LabelValue(inst.Labels, workflowTemplateVersionLabelKey))
             t       == GetWorkflowTemplate(uid, version.val, repoErr)
         IN  [err |-> t.err,
              wf |-> IF t.err # "nil" THEN Nil
                     ELSE [Name |-> inst.Name, WorkflowTemplate |-> t.tpl],
              lookups |-> <<<<uid, version.val>>>>]

\* ResourceManager.GetWorkflow: what it returns, and the lookups it made in the
\* template store.
GetWorkflowCall(name, repoErr, kubeErr) ==
    LET inst == IF kubeErr THEN Nil ELSE KubeGetWorkflow(name) IN
    IF inst = Nil
    THEN [err |-> "NotFound", wf |-> Nil, lookups |-> <<>>]
    ELSE LET uid     == LabelValue(inst.Labels, workflowTemplateUIDLabelKey)
             version == ParseVersionLabel(
                            LabelValue(inst.Labels, workflowTemplateVersionLabelKey))
         IN  IF ~version.ok
             THEN [err |-> "InvalidArgument", wf |-> Nil, lookups |-> <<>>]
             ELSE LET t == GetWorkflowTemplate(uid, version.val, repoErr) IN
                  [err |-> t.err,
                   wf |-> IF t.err # "nil" THEN Nil
                          ELSE [Name |-> inst.Name, WorkflowTemplate |-> t.tpl],
                   lookups |-> <<<<uid, version.val>>>>]

(* ------------------ WorkflowServer: the unary handlers ----------------- *)

\* The errors util.NewUserError makes: errors.As(err, &userError) holds for
\* these and for no other error (nor for nil).
UserErrorCodes == {"NotFound", "InvalidArgument", "Unknown"}

IsUserError(err) == err \in UserErrorCodes

\* apiWorkflow(wf): the fields of wf are read first, so a nil wf is a nil
\* pointer dereference and the handler panics.
apiWorkflow(wf) ==
    IF wf = Nil
    THEN [kind |-> "panic"]
    ELSE [kind |-> "value", Name |-> wf.Name,
          WorkflowTemplate |-> wf.WorkflowTemplate]

\* What a handler hands back: (nil, userError.GRPCError()) on a user error of
\* the manager, else (apiWorkflow(wf), nil).
ServerReturn(r) ==
    IF IsUserError(r.err)
    THEN [kind |-> "error", code |-> r.err]
    ELSE apiWorkflow(r.wf)

\* WorkflowServer.CreateWorkflow after its call of the manager: only a user
\* error is returned, any other error falls through to apiWorkflow(wf).
ServerCreateWorkflow(r) == ServerReturn(r)

\* WorkflowServer.GetWorkflow after its call of the manager.
ServerGetWorkflow(r) == ServerReturn(r)

\* WorkflowServer.WatchWorkflow after its call of the manager: a user error is
\* returned, else the handler enters its stream loop.
ServerWatchWorkflow(r) ==
    IF IsUserError(r.err)
    THEN [kind |-> "error", code |-> r.err]
    ELSE [kind |-> "stream"]

(* ------------------------ ResourceManager: calls ----------------------- *)

\* The template references a CreateWorkflow request carries: those of the
\* store and some the store does not hold.
RequestRefs ==
    {[UID |-> t.UID, Version |-> t.Version] : t \in store}
    \cup {[UID |-> NoSuchUID, Version |-> t.Version] : t \in store}
    \cup {[UID |-> t.UID,
            Version |-> IF t.Version = Int32Max THEN Int32Min ELSE t.Version + 1] :
              t \in store}

\* A call of ResourceManager.CreateWorkflow.
CreateWorkflow ==
    /\ Len(instances) < MaxInstances
    /\ \E ref \in RequestRefs, repoErr \in BOOLEAN, kubeErr \in BOOLEAN :
          LET r == CreateWorkflowCall(ref.UID, ref.Version, repoErr, kubeErr) IN
          /\ mresult' = [op |-> "CreateWorkflow", name |-> 0, ref |-> ref,
                         inst |-> r.created,
                         repoErr |-> repoErr, kubeErr |-> kubeErr,
                         err |-> r.err, wf |-> r.wf, lookups |-> <<>>]
          /\ sresult' = ServerCreateWorkflow(r)
          /\ IF r.created = Nil
             THEN UNCHANGED <<instances, origins>>
             ELSE /\ instances' = Append(instances, r.created)
                  /\ origins' = Append(origins, ref)
    /\ UNCHANGED <<labelKeyPrefix, store, otherLabels>>
    /\ UNCHANGED <<watchVars, pageVars>>

\* A call of ResourceManager.GetWorkflow, on the name of an instance or on a
\* name the engine does not know.
GetWorkflow ==
    /\ \E name \in 1..(Len(instances) + 1), repoErr \in BOOLEAN,
          kubeErr \in BOOLEAN :
          LET r == GetWorkflowCall(name, repoErr, kubeErr) IN
          /\ mresult' = [op |-> "GetWorkflow", name |-> name, ref |-> Nil,
                         inst |-> IF kubeErr THEN Nil ELSE KubeGetWorkflow(name),
                         repoErr |-> repoErr, kubeErr |-> kubeErr,
                         err |-> r.err, wf |-> r.wf, lookups |-> r.lookups]
          /\ sresult' = ServerGetWorkflow(r)
    /\ UNCHANGED <<labelKeyPrefix, store, otherLabels, instances, origins>>
    /\ UNCHANGED <<watchVars, pageVars>>

\* The opening of ResourceManager.WatchWorkflow: the initial fetch, then the
\* subscription. Any error of the fetch is answered with NotFound, an error of
\* the subscription with Unknown; only then are the channel made and the
\* bridge goroutine started.
WatchWorkflowCall(name, repoErr, kubeErr, watchErr) ==
    LET g == GetWorkflowCall(name, repoErr, kubeErr) IN
    IF g.err # "nil"
    THEN [err |-> "NotFound", fetchErr |-> g.err, chan |-> FALSE,
          bridge |-> FALSE, lookups |-> g.lookups]
    ELSE IF watchErr
         THEN [err |-> "Unknown", fetchErr |-> "nil", chan |-> FALSE,
               bridge |-> FALSE, lookups |-> g.lookups]
         ELSE [err |-> "nil", fetchErr |-> "nil", chan |-> TRUE,
               bridge |-> TRUE, lookups |-> g.lookups]

\* A call of ResourceManager.WatchWorkflow up to its return, on the name of an
\* instance or on a name the engine does not know.
WatchWorkflow ==
    /\ \E name \in 1..(Len(instances) + 1), repoErr \in BOOLEAN,
          kubeErr \in BOOLEAN, watchErr \in BOOLEAN :
          LET r == WatchWorkflowCall(name, repoErr, kubeErr, watchErr) IN
          /\ mresult' = [op |-> "WatchWorkflow", name |-> name, ref |-> Nil,
                         inst |-> IF kubeErr THEN Nil ELSE KubeGetWorkflow(name),
                         repoErr |-> repoErr, kubeErr |-> kubeErr,
                         watchErr |-> watchErr, fetchErr |-> r.fetchErr,
                         err |-> r.err, wf |-> Nil, lookups |-> r.lookups,
                         chan |-> r.chan, bridge |-> r.bridge]
          /\ sresult' = ServerWatchWorkflow(r)
    /\ UNCHANGED <<labelKeyPrefix, store, otherLabels, instances, origins>>
    /\ UNCHANGED <<watchVars, pageVars>>

\* Mutant: the selector's key is written without the configured prefix.
LabelSelectorNoPrefix(uid) == <<"workflow-template-uid", "=">> \o uid

\* fmt.Sprintf("%sworkflow-template-uid=%s", labelKeyPrefix, workflowTemplateUID)
LabelSelector(uid) == <<labelKeyPrefix \o "workflow-template-uid", "=">> \o uid

\* ResourceManager.ListWorkflows: the selector it issues (Nil for none) and
\* what it returns; each Workflow carries the name only.
ListWorkflowsCall(uid, kubeErr) ==
    LET sel == IF uid # EmptyString THEN LabelSelector(uid) ELSE Nil
        wfs == KubeListWorkflows(sel)
    IN  IF kubeErr
        THEN [err |-> "NotFound", selector |-> sel, workflows |-> <<>>]
        ELSE [err |-> "nil", selector |-> sel,
              workflows |-> [i \in 1..Len(wfs) |-> [Name |-> wfs[i].Name]]]

\* The template uids a ListWorkflows request carries: none, those of the
\* store, and one no template has.
ListUIDInputs == UIDs \cup {NoSuchUID, EmptyString}

\* A call of ResourceManager.ListWorkflows by WorkflowServer.ListWorkflows
\* (the request leaving page and page size to their defaults).
ManagerListWorkflows ==
    /\ \E uid \in ListUIDInputs, kubeErr \in BOOLEAN :
          LET r == ListWorkflowsCall(uid, kubeErr) IN
          /\ mresult' = [op |-> "ListWorkflows", uid |-> uid,
                         kubeErr |-> kubeErr, err |-> r.err,
                         selector |-> r.selector, workflows |-> r.workflows,
                         insts |-> instances, origs |-> origins]
          /\ sresult' = IF IsUserError(r.err)
                        THEN [kind |-> "error", code |-> r.err]
                        ELSE ListWorkflowsResponse(0, 0, r.workflows)
    /\ UNCHANGED <<labelKeyPrefix, store, otherLabels, instances, origins>>
    /\ UNCHANGED <<watchVars, pageVars>>

\* Other tooling creates an instance in the namespace, with its own labels.
OtherToolCreates ==
    /\ Len(instances) < MaxInstances
    /\ instances' = Append(instances, KubeCreateWorkflow(otherLabels))
    /\ origins' = Append(origins, Nil)
    /\ UNCHANGED <<labelKeyPrefix, store, otherLabels, mresult, sresult>>
    /\ UNCHANGED <<watchVars, pageVars>>

\* The versions the templates of a store carry.
VersionInputs == {Int32Min, -10, -1, 0, 1, 7, 10, 11, 100, Int32Max}

\* A store holding version v of every template, the first of them archived.
StoreOf(v) ==
    {[UID |-> u, Version |-> v, Manifest |-> <<"m">>,
      IsArchived |-> (u = <<"u", "1">>)] : u \in UIDs}

\* Texts other tooling leaves in the version label.
OtherVersionTexts ==
    { EmptyString, <<"a">>, <<"1", "a">>, <<"7">>, <<"+", "5">>, <<"-">>,
      <<"0", "7">>, <<"1", "_", "0">>, <<" ", "1">>, <<"0", "x", "1">>,
      <<"1", ".", "0">>,
      FormatInt32(Int32Max), FormatInt32(Int32Min),
      <<"2", "1", "4", "7", "4", "8", "3", "6", "4", "8">>,
      <<"-", "2", "1", "4", "7", "4", "8", "3", "6", "4", "9">>,
      <<"4", "2", "9", "4", "9", "6", "7", "2", "9", "5">>,
      <<"4", "2", "9", "4", "9", "6", "7", "2", "9", "6">>,
      <<"9", "9", "9", "9", "9", "9", "9", "9", "9", "9", "9">> }

\* The label sets other tooling uses: with or without either label.
OtherLabelInputs(prefix) ==
    LET uidOnly == [x \in {prefix \o "workflow-template-uid"} |-> <<"u", "1">>]
    IN  {NoLabels, uidOnly}
        \cup {LabelPut(NoLabels, prefix \o "workflow-template-version", t) :
                  t \in OtherVersionTexts}
        \cup {LabelPut(uidOnly, prefix \o "workflow-template-version", t) :
                  t \in {<<"a">>, <<"7">>, <<"1", "_", "0">>}}

MgrIdle ==
    /\ labelKeyPrefix = ""
    /\ store = {}
    /\ otherLabels = NoLabels
    /\ instances = <<>>
    /\ origins = <<>>
    /\ mresult = [op |-> "none"]
    /\ sresult = [kind |-> "none"]

MgrInit ==
    /\ labelKeyPrefix \in KeyPrefixes
    \* A run varies the version the store holds or the labels of other tooling.
    /\ \/ /\ store \in {StoreOf(v) : v \in VersionInputs}
          /\ otherLabels = NoLabels
       \/ /\ store = StoreOf(7)
          /\ otherLabels \in OtherLabelInputs(labelKeyPrefix)
    /\ instances = <<>>
    /\ origins = <<>>
    /\ mresult = [op |-> "none"]
    /\ sresult = [kind |-> "none"]

(* --------------------------- specification ----------------------------- *)

WatchInit ==
    /\ kseq = 0
    /\ kfinished = FALSE
    /\ resultChan = "open"
    /\ bpc = "none"
    /\ workflow = Nil
    /\ pushVal = Nil
    /\ chClosed = FALSE
    /\ lastBranch = "none"
    /\ spc = "call"
    /\ swf = EmptyWorkflow
    /\ sret = "none"
    /\ bticks = 0
    /\ sticks = 0
    /\ received = <<>>
    /\ pushed = <<>>
    /\ sent = <<>>
    /\ exitLog = <<>>

Init == WatchInit /\ PageIdle /\ MgrIdle

Next ==
    \/ ServerCallWatch
    \/ BridgeRecvEvent
    \/ BridgeTick
    \/ BridgeClose
    \/ BridgeStop
    \/ KubeCloseResultChan
    \/ ServerRecvSnapshot
    \/ ServerRecvClosed
    \/ ServerTick
    \/ ServerSend

Spec == Init /\ [][Next]_vars

\* The pagination of WorkflowServer.ListWorkflows over every request and
\* listing within the bounds.
PageSpecInit == WatchInit /\ PageInit /\ MgrIdle

PageSpec == PageSpecInit /\ [][ListWorkflows]_vars

\* The manager's calls on the engine's instances and the template store.
MgrNext ==
    \/ CreateWorkflow
    \/ GetWorkflow
    \/ OtherToolCreates

MgrSpecInit == WatchInit /\ PageIdle /\ MgrInit

MgrSpec == MgrSpecInit /\ [][MgrNext]_vars

\* The opening of the manager's WatchWorkflow on the instances of the engine.
WatchOpenNext ==
    \/ CreateWorkflow
    \/ WatchWorkflow
    \/ OtherToolCreates

\* The labels of other tooling a watched instance carries: none, a version
\* that is no number, and a reference to a template of the store or to none.
WatchedLabelInputs(prefix) ==
    LET uidOnly == [x \in {prefix \o "workflow-template-uid"} |-> <<"u", "1">>]
    IN  {NoLabels,
         LabelPut(NoLabels, prefix \o "workflow-template-version", <<"a">>),
         LabelPut(uidOnly, prefix \o "workflow-template-version", <<"7">>),
         LabelPut(uidOnly, prefix \o "workflow-template-version", <<"8">>)}

WatchOpenInit ==
    /\ labelKeyPrefix \in KeyPrefixes
    /\ store = StoreOf(7)
    /\ otherLabels \in WatchedLabelInputs(labelKeyPrefix)
    /\ instances = <<>>
    /\ origins = <<>>
    /\ mresult = [op |-> "none"]
    /\ sresult = [kind |-> "none"]

WatchOpenSpecInit == WatchInit /\ PageIdle /\ WatchOpenInit

WatchOpenSpec == WatchOpenSpecInit /\ [][WatchOpenNext]_vars

\* The manager's ListWorkflows on the instances of the engine.
ListNext ==
    \/ CreateWorkflow
    \/ ManagerListWorkflows
    \/ OtherToolCreates

ListSpec == MgrSpecInit /\ [][ListNext]_vars

\* The scheduling the Go runtime gives the watch path: a goroutine that can run
\* does run (the bridge's close and Stop, the handler's Send returns), and a
\* select whose channel case is ready again and again eventually takes it
\* (the select picks uniformly among its ready cases).
FairSpec ==
    /\ Spec
    /\ WF_vars(BridgeClose)
    /\ WF_vars(BridgeStop)
    /\ WF_vars(ServerSend)
    /\ SF_vars(ServerRecvSnapshot)

(* ------------------------- the watch path: claims ---------------------- *)

\* Positions of the terminal snapshots (FinishedAt non-zero) in a sequence of
\* snapshots.
TerminalAt(s) == {i \in 1..Len(s) : s[i].kind = "snap" /\ s[i].finished}

\* The bridge holds an object with non-zero Status.FinishedAt.
HoldsTerminal == workflow # Nil /\ workflow.finished

\* No object received from the watch so far has a non-zero FinishedAt.
NoTerminalReceived ==
    \A i \in 1..Len(received) :
        ~(received[i].kind = "wf" /\ received[i].finished)

C2_NoSendAfterTerminal ==
    \A i \in TerminalAt(sent) : i = Len(sent)

\* C3: when the handler has returned because stream.Send failed, the bridge is
\* not left blocked in its channel send with the watch subscription unreleased.
C3_NoOrphanedBridge ==
    ~(sret = "sendErr" /\ bpc = "push" /\ exitLog = <<>>)

\* C4: on leaving the loop the bridge closes the channel first and stops the
\* watch second, each exactly once.
C4_CloseThenStopOnce ==
    /\ exitLog \in {<<>>, <<"close">>, <<"close", "stop">>}
    /\ bpc \in {"none", "select", "push", "close"} => exitLog = <<>>
    /\ bpc = "stop" => exitLog = <<"close">>
    /\ bpc = "done" => exitLog = <<"close", "stop">>
    /\ chClosed <=> (exitLog # <<>>)

\* C4 witness: the goroutine has ended, having closed and then stopped.
C4_Witness ==
    /\ bpc = "done"
    /\ exitLog = <<"close", "stop">>
    /\ lastBranch = "event"

\* C5: while no received object has a non-zero FinishedAt, ticks without events
\* leave the stream open: no close, no Stop, no nil return, and no error other
\* than one of opening the watch or of the transport.
C5_OpenWhileNotTerminal ==
    NoTerminalReceived =>
        /\ ~chClosed
        /\ exitLog = <<>>
        /\ bpc \in {"none", "select", "push"}
        /\ sret # "nil"
        /\ sret \in {"NotFound", "Unknown"} => bpc = "none"

\* C5 witness: two ticks in a row re-pushed a held non-terminal object.
C5_Witness ==
    /\ NoTerminalReceived
    /\ workflow # Nil
    /\ bticks >= 2
    /\ lastBranch = "tick"
    /\ Len(pushed) >= 3
    /\ pushed[Len(pushed)] = pushed[Len(pushed) - 1]
    /\ ~chClosed

(* ------------------------- pagination: claims -------------------------- *)

\* The handler has returned for a listing the manager gave without error.
Listed == lpc = "done" /\ llist.err = "nil"

\* The page size and the page of the request after normalisation.
NormalPageSize == IF lreq.PageSize <= 0 THEN 15 ELSE lreq.PageSize

NormalPage == IF lreq.Page <= 0 THEN 1 ELSE lreq.Page

\* ceil(totalCount / pageSize)
PagesOf(n) == IF n % NormalPageSize = 0
              THEN n \div NormalPageSize
              ELSE (n \div NormalPageSize) + 1

\* min(page, pages)
ClampedPage(n) == IF NormalPage > PagesOf(n) THEN PagesOf(n) ELSE NormalPage

\* C6: for a non-empty listing the response holds items[start:end] with
\* start = (page-1)*pageSize and end = min(start+pageSize, totalCount), and
\* count = end - start (so 22 items in pages of 15 give 15 and then 7).
C6_PageIsSliceOfListing ==
    (Listed /\ Len(llist.workflows) >= 1) =>
        LET n     == Len(llist.workflows)
            start == (ClampedPage(n) - 1) * NormalPageSize
            end   == IF start + NormalPageSize > n THEN n
                     ELSE start + NormalPageSize
        IN  /\ lresp.kind = "response"
            /\ lresp.Workflows = SubSeq(llist.workflows, start + 1, end)
            /\ lresp.Count = end - start

\* C7: an empty listing gives an empty page with count = 0, pages = 0 and
\* totalCount = 0, and no slice bound out of range.
C7_EmptyListingGivesEmptyPage ==
    (Listed /\ Len(llist.workflows) = 0) =>
        /\ lresp.kind = "response"
        /\ lresp.Workflows = <<>>
        /\ lresp.Count = 0
        /\ lresp.Pages = 0
        /\ lresp.TotalCount = 0

\* C8: the response reports pages = ceil(totalCount / pageSize) and
\* page = min(requested page, pages), after normalisation.
C8_PagesAndClampedPageReported ==
    Listed =>
        /\ lresp.kind = "response"
        /\ lresp.Pages = PagesOf(Len(llist.workflows))
        /\ lresp.Page = ClampedPage(Len(llist.workflows))

(* --------------------- correlation labels: claims ---------------------- *)

\* The manager's last call was GetWorkflow and the engine gave it the
\* instance of that name.
GotInstance ==
    /\ mresult.op = "GetWorkflow"
    /\ mresult.inst # Nil

\* The text of the version label of the instance GetWorkflow was called on.
GotVersionText ==
    LabelValue(mresult.inst.Labels, workflowTemplateVersionLabelKey)

\* The digits of a text without its leading zeros.
RECURSIVE StripZeros(_)
StripZeros(t) ==
    IF Len(t) > 1 /\ t[1] = "0" THEN StripZeros(Tail(t)) ELSE t

\* a <= b for two digit texts of the same length.
DigitsLeq(a, b) ==
    \/ a = b
    \/ \E i \in 1..Len(a) :
          /\ \A j \in 1..(i - 1) : a[j] = b[j]
          /\ DigitValue(a[i]) < DigitValue(b[i])

\* A text is a base-10 32-bit integer: an optional sign, one or more decimal
\* digits, and a value from -2147483648 to 2147483647.
IsInt32Text(t) ==
    LET signed == t # <<>> /\ t[1] \in {"+", "-"}
        body   == IF signed THEN Tail(t) ELSE t
        digits == StripZeros(body)
        limit  == IF t # <<>> /\ t[1] = "-"
                  THEN <<"2", "1", "4", "7", "4", "8", "3", "6", "4", "8">>
                  ELSE <<"2", "1", "4", "7", "4", "8", "3", "6", "4", "7">>
    IN  /\ body # <<>>
        /\ \A i \in 1..Len(body) : \E k \in 1..10 : DigitChars[k] = body[i]
        /\ \/ Len(digits) < 10
           \/ Len(digits) = 10 /\ DigitsLeq(digits, limit)

\* C9: an instance made by CreateWorkflow from template (uid, version) is
\* read back by GetWorkflow as that (uid, version): the one lookup in the
\* store is for it, and the Workflow returned carries that template.
C9_LabelsRoundTrip ==
    (GotInstance /\ origins[mresult.name] # Nil) =>
        LET o == origins[mresult.name] IN
        /\ mresult.lookups = <<<<o.UID, o.Version>>>>
        /\ mresult.err = (IF mresult.repoErr THEN "Unknown" ELSE "nil")
        /\ mresult.err = "nil" =>
              /\ mresult.wf.WorkflowTemplate.UID = o.UID
              /\ mresult.wf.WorkflowTemplate.Version = o.Version

\* C9 witness: the least int32, whose text carries a sign and ten digits, has
\* made the round trip.
C9_Witness ==
    /\ GotInstance
    /\ origins[mresult.name] # Nil
    /\ origins[mresult.name].Version = Int32Min
    /\ mresult.err = "nil"
    /\ mresult.wf.WorkflowTemplate.Version = Int32Min

\* C10: GetWorkflow on an instance whose version label is absent or is no
\* base-10 32-bit integer fails with InvalidArgument, returns no Workflow and
\* looks up no template.
C10_MalformedVersionIsInvalidArgument ==
    (GotInstance /\ ~IsInt32Text(GotVersionText)) =>
        /\ mresult.err = "InvalidArgument"
        /\ mresult.wf = Nil
        /\ mresult.lookups = <<>>

\* C10 witness: a version label one past the largest int32 was refused.
C10_Witness ==
    /\ GotInstance
    /\ GotVersionText = <<"2", "1", "4", "7", "4", "8", "3", "6", "4", "8">>
    /\ mresult.err = "InvalidArgument"

(* ----------------------- error boundary: claims ------------------------ *)

\* C11: every error a ResourceManager operation returns is a classified user
\* error (NotFound, InvalidArgument or Unknown), never a raw error of the
\* orchestration client or of the template store.
C11_ManagerErrorsAreClassified ==
    mresult.op # "none" => mresult.err \in UserErrorCodes \cup {"nil"}

\* C12: a handler of the WorkflowServer ends with a value and a nil error, or
\* with no value and a classified error; when the manager returned an error
\* the handler returns that failure and builds no response from the nil result.
C12_ServerValueOrClassifiedError ==
    mresult.op \in {"CreateWorkflow", "GetWorkflow"} =>
        /\ sresult.kind \in {"value", "error"}
        /\ sresult.kind = "error" => sresult.code \in UserErrorCodes
        /\ mresult.err # "nil" =>
              /\ sresult.kind = "error"
              /\ sresult.code = mresult.err

\* The manager's last call was WatchWorkflow and it failed to open: the
\* initial fetch failed, or the subscription could not be opened.
WatchOpenFailed ==
    /\ mresult.op = "WatchWorkflow"
    /\ (mresult.fetchErr # "nil" \/ mresult.watchErr)

\* C13: when the initial fetch fails or the subscription cannot be opened,
\* WatchWorkflow returns no channel, starts no bridge, and returns the
\* originating error with its kind unchanged (the kind GetWorkflow gave when
\* the fetch failed).
C13_WatchOpenErrorKeepsKind ==
    WatchOpenFailed =>
        /\ ~mresult.chan
        /\ ~mresult.bridge
        /\ mresult.err \in UserErrorCodes
        /\ mresult.fetchErr # "nil" => mresult.err = mresult.fetchErr

(* --------------------- listing by template: claims --------------------- *)

\* The manager's last call was ListWorkflows and the engine answered it.
Listing == mresult.op = "ListWorkflows" /\ mresult.err = "nil"

\* The names of the Workflows the listing returned, in order.
ListedNames == [i \in 1..Len(mresult.workflows) |-> mresult.workflows[i].Name]

\* The names of the first n instances the engine held at the call whose label
\* of key k is present with the value v, in order.
RECURSIVE NamesLabelled(_, _, _)
NamesLabelled(k, v, n) ==
    IF n = 0
    THEN <<>>
    ELSE IF k \in DOMAIN mresult.insts[n].Labels /\ mresult.insts[n].Labels[k] = v
         THEN Append(NamesLabelled(k, v, n - 1), mresult.insts[n].Name)
         ELSE NamesLabelled(k, v, n - 1)

\* C14: with a non-empty uid ListWorkflows issues the selector
\* '<prefix>workflow-template-uid=<uid>' on the key CreateWorkflow stamps and
\* gets exactly the instances stamped with that uid (an instance CreateWorkflow
\* made is listed if and only if it was made from that uid); with an empty uid
\* it issues no selector and gets every instance of the namespace.
C14_ListSelectsByStampedUID ==
    Listing =>
        IF mresult.uid = EmptyString
        THEN /\ mresult.selector = Nil
             /\ ListedNames = [i \in 1..Len(mresult.insts) |-> mresult.insts[i].Name]
        ELSE /\ SelectorKey(mresult.selector) = workflowTemplateUIDLabelKey
             /\ mresult.selector[2] = "="
             /\ SelectorValue(mresult.selector) = mresult.uid
             /\ ListedNames = NamesLabelled(workflowTemplateUIDLabelKey,
                                            mresult.uid, Len(mresult.insts))
             /\ \A i \in 1..Len(mresult.insts) :
                   mresult.origs[i] # Nil =>
                       ((\E j \in 1..Len(ListedNames) : ListedNames[j] = i)
                            <=> mresult.origs[i].UID = mresult.uid)

\* C14 witness: of two instances made from different templates, under a
\* non-empty key prefix, the listing by the second uid returned the second only.
C14_Witness ==
    /\ Listing
    /\ labelKeyPrefix # ""
    /\ Len(mresult.insts) = 2
    /\ mresult.origs[1] # Nil /\ mresult.origs[2] # Nil
    /\ mresult.origs[1].UID # mresult.origs[2].UID
    /\ mresult.uid = mresult.origs[2].UID
    /\ ListedNames = <<2>>

(* ----------------------- archived templates: claims -------------------- *)

\* The manager's last call was CreateWorkflow on a template version the store
\* holds archived, and neither the store nor the engine failed.
CreatedFromArchived ==
    /\ mresult.op = "CreateWorkflow"
    /\ ~mresult.repoErr
    /\ ~mresult.kubeErr
    /\ \E t \in store : /\ t.UID = mresult.ref.UID
                        /\ t.Version = mresult.ref.Version
                        /\ t.IsArchived

\* C15: CreateWorkflow on an archived template version that exists succeeds:
\* no archived check is made, the instance is created with both labels
\* stamped, and the Workflow is returned with the engine's name and the
\* template.
C15_ArchivedTemplateStillCreates ==
    CreatedFromArchived =>
        /\ mresult.err = "nil"
        /\ mresult.inst # Nil
        /\ LabelValue(mresult.inst.Labels, workflowTemplateUIDLabelKey)
               = mresult.ref.UID
        /\ LabelValue(mresult.inst.Labels, workflowTemplateVersionLabelKey)
               = FormatInt32(mresult.ref.Version)
        /\ mresult.wf # Nil
        /\ mresult.wf.Name = mresult.inst.Name
        /\ mresult.wf.WorkflowTemplate.UID = mresult.ref.UID
        /\ mresult.wf.WorkflowTemplate.IsArchived
        /\ sresult.kind = "value"

\* C15 witness: a second instance was made from the archived template.
C15_Witness ==
    /\ CreatedFromArchived
    /\ mresult.err = "nil"
    /\ mresult.inst.Name = 2
    /\ mresult.wf.WorkflowTemplate.IsArchived

(* ------------------ the watch path: ticks and events ------------------- *)

\* The workflow objects among those the bridge received, in order.
ReceivedWorkflows == SelectSeq(received, LAMBDA obj : obj.kind = "wf")

\* The bridge offers and pushes nothing before it has received a first
\* workflow object.
BridgeSilentBeforeFirstObject ==
    ReceivedWorkflows = <<>> => (pushed = <<>> /\ bpc # "push")

\* C16: a tick with no object held is a no-op on the whole watch path: the
\* handler sends nothing on the stream before it has received a first
\* snapshot, and the bridge pushes nothing before it has received a first
\* workflow object.
C16_TickWithoutObjectIsNoOp ==
    /\ pushed = <<>> => sent = <<>>
    /\ BridgeSilentBeforeFirstObject

\* The step is an iteration of the bridge's loop on an event of the open
\* watch or on a tick: the select is left and the loop body runs.
BridgeIterates ==
    /\ bpc = "select"
    /\ (received' # received \/ bticks' # bticks)

\* C17: once the bridge has received a workflow object, every iteration of
\* its loop, on an event or on a tick, offers a snapshot of the workflow
\* object received last; an event without a workflow object does not stop
\* this.
C17_EveryIterationPushesLatest ==
    [][(BridgeIterates /\ ReceivedWorkflows' # <<>>) =>
           /\ bpc' = "push"
           /\ pushVal' = Snapshot(ReceivedWorkflows'[Len(ReceivedWorkflows')])]_vars

\* A sequence without its immediate repetitions.
RECURSIVE Dedup(_)
Dedup(s) ==
    IF Len(s) <= 1
    THEN s
    ELSE LET d == Dedup(SubSeq(s, 1, Len(s) - 1)) IN
         IF s[Len(s)] = s[Len(s) - 1] THEN d ELSE Append(d, s[Len(s)])

\* The snapshots of the workflow objects received, in the order received.
ReceivedSnapshots ==
    [i \in 1..Len(ReceivedWorkflows) |-> Snapshot(ReceivedWorkflows[i])]

ClosedEarly == resultChan = "closed" /\ NoTerminalReceived

\* The step is a receive of the bridge from the closed result channel.
BridgeReceivesOnClosed ==
    /\ bpc = "select"
    /\ resultChan = "closed"
    /\ bticks' = bticks
    /\ <<workflow, lastBranch, bpc>>' # <<workflow, lastBranch, bpc>>

\* C19: when the result channel is closed before any finished object was
\* received, the bridge never leaves its loop: the output channel is never
\* closed, the watch never stopped and the handler never returns nil; each
\* receive from the closed channel makes the held object nil, and from then on
\* the held object stays nil and no snapshot is pushed.
C19_ClosedWatchNeverEndsStream ==
    /\ [](ClosedEarly =>
             /\ ~chClosed
             /\ exitLog = <<>>
             /\ bpc \in {"select", "push"}
             /\ sret # "nil")
    /\ [][(ClosedEarly /\ BridgeReceivesOnClosed) =>
              (workflow' = Nil /\ bpc' = "select" /\ pushed' = pushed)]_vars
    /\ [][(ClosedEarly /\ bpc = "select" /\ workflow = Nil) =>
              (workflow' = Nil /\ bpc' = "select" /\ pushed' = pushed)]_vars

\* C19 witness: after a snapshot was pushed the watch was closed, a receive
\* from the closed channel made the held object nil, and a later tick pushed
\* nothing.
C19_Witness ==
    /\ ClosedEarly
    /\ Len(pushed) >= 1
    /\ ReceivedWorkflows = received
    /\ workflow = Nil
    /\ bpc = "select"
    /\ lastBranch = "tick"
    /\ ~chClosed

=============================================================================
